---- MODULE Spec2Model ----
(***************************************************************************)
(* Model of tools/arbitrage/scanner.py: the auction scraper's batch loop   *)
(* (scan_items / fetch_item), the arbitrage detector (detect_vendor_flip,  *)
(* detect_market_flip, analyze), the currency formatter and parser         *)
(* (format_copper, _parse_copper) and the exporter (export_for_aux).       *)
(*                                                                         *)
(* Python ints are unbounded, so prices are plain integers.  Python floats *)
(* are IEEE-754 doubles; the two float products of the detector            *)
(* (avg_price * market_threshold, avg_price * (1 - AH_CUT)) are modelled   *)
(* by Float values that record the exact rational and whether the rounded  *)
(* double lies just below it (see FloatMul).                               *)
(***************************************************************************)
EXTENDS Integers, Sequences, FiniteSets, TLC

VARIABLES
    min_profit,        \* ArbitrageDetector.min_profit
    market_threshold,  \* ArbitrageDetector.market_threshold (a FloatConst)
    auction,           \* the snapshot handed to a single detector call
    opp,               \* what that call returned: None or Some(opportunity)
    called,            \* which detector produced opp: "none", "vendor", "market"
    auctions,          \* the list handed to analyze
    opportunities,     \* the list analyze returned
    analyzed,          \* analyze has returned
    items,             \* scan_items: the input list of (item_id, item_name)
    responses,         \* scan_items: what the site answered to each request, in order
    idx,               \* scan_items: number of loop iterations completed
    requests,          \* scan_items: the items fetch_item was called for, in order
    results,           \* scan_items: the accumulating result list
    returned,          \* scan_items has returned
    output_path,       \* export_for_aux: the output_path argument
    export_in,         \* export_for_aux: the opportunities argument
    fs,                \* the file system: path -> content, NoFile when absent
    exports,           \* number of export_for_aux calls made
    first_fs,          \* the file system as the first export_for_aux call left it
    copper,            \* format_copper: the argument
    text               \* format_copper: the returned string, as a sequence of characters

vars == <<min_profit, market_threshold, auction, opp, called, auctions,
          opportunities, analyzed, items, responses, idx, requests, results,
          returned, output_path, export_in, fs, exports, first_fs, copper, text>>

detectorVars == <<auction, opp, called>>
analyzeVars  == <<auctions, opportunities, analyzed>>
scanVars     == <<items, responses, idx, requests, results, returned>>
exportVars   == <<output_path, export_in, fs, exports, first_fs>>
formatVars   == <<copper, text>>
configVars   == <<min_profit, market_threshold>>

(***************************************************************************)
(* Bounds of the model.                                                    *)
(***************************************************************************)
MaxVendor    == 5    \* vendor flip inputs: vendor_price, min_buyout in 0..MaxVendor
MaxAvg       == 90   \* market flip inputs: avg_price in 0..MaxAvg
MaxBuyout    == 63   \* market flip inputs: min_buyout in 0..MaxBuyout
MaxMinProfit == 2    \* min_profit in -MaxMinProfit..MaxMinProfit
MaxAmount    == 2    \* amount_listed in 1..MaxAmount (0..MaxAmount in site answers)

MinProfits == (0 - MaxMinProfit)..MaxMinProfit

(***************************************************************************)
(* Optional[T]: None, or Some(x).                                          *)
(***************************************************************************)
None == <<>>
Some(x) == <<x>>
IsSome(o) == o /= None
Get(o) == o[1]

(***************************************************************************)
(* Floats.  A FloatConst [num, den, err] is the double                     *)
(*     (num * 2^53 - err) / (den * 2^53),                                  *)
(* the double nearest to num/den: 0.70 is 0x1.6666666666666p-1, which is   *)
(* 0.7 - 0.4 * 2^-53, and 1 - 0.05 evaluates to the double 0.95 =          *)
(* 0x1.e666666666666p-1, which is 0.95 - 0.4 * 2^-53.  0.5 and 1.0 are     *)
(* exact.                                                                  *)
(***************************************************************************)
Threshold070 == [num |-> 7, den |-> 10, err |-> 4]   \* market_threshold = 0.70
Threshold050 == [num |-> 1, den |-> 2, err |-> 0]    \* market_threshold = 0.5
Threshold100 == [num |-> 1, den |-> 1, err |-> 0]    \* market_threshold = 1.0
Thresholds == {Threshold070, Threshold050, Threshold100}

\* 1 - self.AH_CUT with AH_CUT = 0.05
OneMinusAhCut == [num |-> 19, den |-> 20, err |-> 8]

\* The largest power of two <= v, for v >= 1.
RECURSIVE BinadeFrom(_, _)
BinadeFrom(p, v) == IF 2 * p <= v THEN BinadeFrom(2 * p, v) ELSE p
Binade(v) == BinadeFrom(1, v)

(***************************************************************************)
(* n * c for an int n >= 0 and a float constant c, rounded to the nearest  *)
(* double (ties to even).  The exact product is                            *)
(*     n*num/den - n*err/(den * 2^53).                                     *)
(* The result is the Float [num |-> n*num, den |-> den, below |-> b]:      *)
(* when V = n*num/den is an integer, 2^e <= V < 2^(e+1), the doubles next  *)
(* to V are 2^(e-52) apart (2^(e-53) below V when V = 2^e), so the product *)
(* rounds to V itself iff n*err/den <= 2^e (iff 2*n*err/den <= 2^e when    *)
(* V = 2^e; a tie goes to V, whose mantissa is even), and otherwise to a   *)
(* double just below V (b = TRUE).  When V is not an integer, the double   *)
(* differs from V by less than 2^-40, far less than V's distance 1/den     *)
(* from any integer, and b = FALSE: Floats are only ever compared with     *)
(* ints and truncated to ints.                                             *)
(***************************************************************************)
FloatMul(n, c) ==
    LET q == n * c.num
        V == q \div c.den
        p == Binade(V)
        b == /\ c.err > 0
             /\ q > 0
             /\ q % c.den = 0
             /\ IF V = p THEN 2 * n * c.err > c.den * p
                         ELSE n * c.err > c.den * p
    IN  [num |-> q, den |-> c.den, below |-> b]

\* m > x for an int m and a Float x
IntGtFloat(m, x) ==
    \/ m * x.den > x.num
    \/ m * x.den = x.num /\ x.below

\* x - m for a Float x and an int m: exact, both lie on x's grid
FloatSubInt(x, m) == [num |-> x.num - m * x.den, den |-> x.den, below |-> x.below]

\* int(x): truncation toward zero
FloatToInt(x) ==
    IF x.below
      THEN IF x.num > 0 THEN (x.num \div x.den) - 1 ELSE x.num \div x.den
      ELSE IF x.num >= 0 THEN x.num \div x.den
                         ELSE 0 - ((0 - x.num) \div x.den)

\* floor of the exact rational num/den (den > 0); \div rounds toward minus infinity
Floor(num, den) == num \div den

(***************************************************************************)
(* roi_percent is a float; it is kept as the exact ratio num/den.          *)
(***************************************************************************)
Ratio(n, d) == [num |-> n, den |-> d]

(***************************************************************************)
(* The data classes.                                                       *)
(***************************************************************************)
AuctionData(id, name, amount, buyout, avg, vendor) ==
    [item_id |-> id, item_name |-> name, amount_listed |-> amount,
     min_buyout |-> buyout, avg_price |-> avg, vendor_price |-> vendor,
     last_scan |-> ""]

ArbitrageOpportunity(a, type, target, profit, roi) ==
    [item_id |-> a.item_id, item_name |-> a.item_name,
     opportunity_type |-> type,
     current_price |-> a.min_buyout,
     target_price |-> target,
     profit_per_item |-> profit,
     amount_available |-> a.amount_listed,
     total_potential_profit |-> profit * a.amount_listed,
     roi_percent |-> roi]

\* detect_vendor_flip with the filter profit > min_profit
detect_vendor_flip_strict(a, minProfit) ==
    IF a.vendor_price <= 0 THEN None
    ELSE LET profit == a.vendor_price - a.min_buyout
         IN  IF profit > minProfit
               THEN Some(ArbitrageOpportunity(a, "vendor", a.vendor_price, profit,
                         IF a.min_buyout > 0
                           THEN Ratio(profit * 100, a.min_buyout)
                           ELSE Ratio(0, 1)))
               ELSE None

(***************************************************************************)
(* ArbitrageDetector.detect_vendor_flip                                    *)
(***************************************************************************)
detect_vendor_flip(a, minProfit) ==
    IF a.vendor_price <= 0 THEN None
    ELSE LET profit == a.vendor_price - a.min_buyout
         IN  IF profit >= minProfit
               THEN Some(ArbitrageOpportunity(a, "vendor", a.vendor_price, profit,
                         IF a.min_buyout > 0
                           THEN Ratio(profit * 100, a.min_buyout)
                           ELSE Ratio(0, 1)))
               ELSE None

\* detect_market_flip with the AH cut left out of the profit
detect_market_flip_no_cut(a, minProfit, threshold) ==
    IF a.avg_price <= 0 \/ a.min_buyout <= 0 THEN None
    ELSE IF IntGtFloat(a.min_buyout, FloatMul(a.avg_price, threshold)) THEN None
    ELSE LET profit == a.avg_price - a.min_buyout
         IN  IF profit >= minProfit
               THEN Some(ArbitrageOpportunity(a, "market", a.avg_price, profit,
                         Ratio(profit * 100, a.min_buyout)))
               ELSE None

(***************************************************************************)
(* ArbitrageDetector.detect_market_flip                                    *)
(***************************************************************************)
detect_market_flip(a, minProfit, threshold) ==
    IF a.avg_price <= 0 \/ a.min_buyout <= 0 THEN None
    ELSE IF IntGtFloat(a.min_buyout, FloatMul(a.avg_price, threshold)) THEN None
    ELSE LET resale_price == a.avg_price
             net_resale == FloatMul(resale_price, OneMinusAhCut)
             profit == FloatToInt(FloatSubInt(net_resale, a.min_buyout))
         IN  IF profit >= minProfit
               THEN Some(ArbitrageOpportunity(a, "market", a.avg_price, profit,
                         Ratio(profit * 100, a.min_buyout)))
               ELSE None

(***************************************************************************)
(* ArbitrageDetector.analyze.  list.sort(key=..., reverse=True) is stable: *)
(* elements with equal keys keep the order they had in the list.           *)
(***************************************************************************)
\* an unstable insertion: x placed in front of the elements with an equal key
RECURSIVE InsertDescendingUnstable(_, _)
InsertDescendingUnstable(x, s) ==
    IF s = <<>> THEN <<x>>
    ELSE IF Head(s).total_potential_profit > x.total_potential_profit
           THEN <<Head(s)>> \o InsertDescendingUnstable(x, Tail(s))
           ELSE <<x>> \o s

\* x placed behind every element of the sorted list s whose key is >= x's key
RECURSIVE InsertDescending(_, _)
InsertDescending(x, s) ==
    IF s = <<>> THEN <<x>>
    ELSE IF Head(s).total_potential_profit >= x.total_potential_profit
           THEN <<Head(s)>> \o InsertDescending(x, Tail(s))
           ELSE <<x>> \o s

RECURSIVE SortDescending(_)
SortDescending(s) ==
    IF s = <<>> THEN <<>>
    ELSE InsertDescending(s[Len(s)], SortDescending(SubSeq(s, 1, Len(s) - 1)))

\* the loop of analyze: per auction, the vendor opportunity, then the market one
RECURSIVE Collect(_, _, _)
Collect(as, minProfit, threshold) ==
    IF as = <<>> THEN <<>>
    ELSE detect_vendor_flip(Head(as), minProfit)
         \o detect_market_flip(Head(as), minProfit, threshold)
         \o Collect(Tail(as), minProfit, threshold)

analyze(as, minProfit, threshold) ==
    SortDescending(Collect(as, minProfit, threshold))

(***************************************************************************)
(* Strings are sequences of one-character strings.                         *)
(***************************************************************************)
Digits == <<"0", "1", "2", "3", "4", "5", "6", "7", "8", "9">>
IsDigit(ch) == \E d \in 1..10 : Digits[d] = ch
DigitValue(ch) == (CHOOSE d \in 1..10 : Digits[d] = ch) - 1

\* str(n) for n >= 0
RECURSIVE IntToChars(_)
IntToChars(n) ==
    IF n < 10 THEN <<Digits[n + 1]>>
    ELSE IntToChars(n \div 10) \o <<Digits[(n % 10) + 1]>>

\* int(s) for a non-empty run of digits
RECURSIVE CharsToInt(_)
CharsToInt(s) ==
    IF Len(s) = 1 THEN DigitValue(s[1])
    ELSE 10 * CharsToInt(SubSeq(s, 1, Len(s) - 1)) + DigitValue(s[Len(s)])

\* " ".join(parts)
RECURSIVE Join(_)
Join(parts) ==
    IF parts = <<>> THEN <<>>
    ELSE IF Len(parts) = 1 THEN parts[1]
    ELSE parts[1] \o <<" ">> \o Join(Tail(parts))

\* format_copper with silver taken from the whole amount
format_copper_silver_total(n) ==
    LET gold == n \div 10000
        silver == n \div 100
        copper_rem == n % 100
        g == IF gold > 0 THEN <<IntToChars(gold) \o <<"g">>>> ELSE <<>>
        s == IF silver > 0 THEN <<IntToChars(silver) \o <<"s">>>> ELSE <<>>
        parts == g \o s
        c == IF copper_rem > 0 \/ parts = <<>>
               THEN <<IntToChars(copper_rem) \o <<"c">>>> ELSE <<>>
    IN  Join(parts \o c)

(***************************************************************************)
(* format_copper.  // and % are Python's floor division and modulo, which  *)
(* \div and % are too.                                                     *)
(***************************************************************************)
format_copper(n) ==
    LET gold == n \div 10000
        silver == (n % 10000) \div 100
        copper_rem == n % 100
        g == IF gold > 0 THEN <<IntToChars(gold) \o <<"g">>>> ELSE <<>>
        s == IF silver > 0 THEN <<IntToChars(silver) \o <<"s">>>> ELSE <<>>
        parts == g \o s
        c == IF copper_rem > 0 \/ parts = <<>>
               THEN <<IntToChars(copper_rem) \o <<"c">>>> ELSE <<>>
    IN  Join(parts \o c)

(***************************************************************************)
(* WowAuctionsScraper._parse_copper.  re.search(r'(\d+)u', s) returns the  *)
(* leftmost match; \d+ is greedy and u is no digit, so a match starting at *)
(* i takes the whole run of digits from i and needs u right behind it.     *)
(***************************************************************************)
RECURSIVE DigitRunEnd(_, _)
DigitRunEnd(s, i) ==
    IF i < Len(s) /\ IsDigit(s[i + 1]) THEN DigitRunEnd(s, i + 1) ELSE i

MatchesAt(s, i, unit) ==
    /\ IsDigit(s[i])
    /\ DigitRunEnd(s, i) < Len(s)
    /\ s[DigitRunEnd(s, i) + 1] = unit

\* re.search(r'(\d+)<unit>', s): None, or Some(int(group(1)))
re_search(s, unit) ==
    IF \E i \in 1..Len(s) : MatchesAt(s, i, unit)
      THEN LET i == CHOOSE k \in 1..Len(s) :
                      /\ MatchesAt(s, k, unit)
                      /\ \A j \in 1..(k - 1) : ~MatchesAt(s, j, unit)
           IN  Some(CharsToInt(SubSeq(s, i, DigitRunEnd(s, i))))
      ELSE None

parse_copper(price_str) ==
    IF price_str = <<>> THEN 0
    ELSE LET gold_match == re_search(price_str, "g")
             silver_match == re_search(price_str, "s")
             copper_match == re_search(price_str, "c")
         IN  (IF IsSome(gold_match) THEN Get(gold_match) * 10000 ELSE 0)
           + (IF IsSome(silver_match) THEN Get(silver_match) * 100 ELSE 0)
           + (IF IsSome(copper_match) THEN Get(copper_match) ELSE 0)

(***************************************************************************)
(* WowAuctionsScraper.fetch_item.  A response is what the site answers to  *)
(* the GET: kind is                                                        *)
(*   "network_error"  session.get raises (timeout, connection error)       *)
(*   "404"            status 404                                           *)
(*   "http_error"     another error status: raise_for_status raises        *)
(*   "no_script"      no __NEXT_DATA__ script tag in the page              *)
(*   "bad_json"       json.loads raises                                    *)
(*   "no_stats"       the payload has no (or an empty) stats section       *)
(*   "ok"             a payload with stats; each field is None when the    *)
(*                    key is missing, and dict.get then gives the default  *)
(* Every exception is caught by the except clause, which returns None.     *)
(***************************************************************************)
Response(kind, item_count, minimum_buyout, avg_price, SellPrice) ==
    [kind |-> kind, item_count |-> item_count, minimum_buyout |-> minimum_buyout,
     avg_price |-> avg_price, SellPrice |-> SellPrice]

\* d.get(key, default)
GetOr(o, default) == IF IsSome(o) THEN Get(o) ELSE default

fetch_item(item, r) ==
    IF r.kind = "network_error" THEN None          \* except: return None
    ELSE IF r.kind = "404" THEN None
    ELSE IF r.kind = "http_error" THEN None        \* except: return None
    ELSE IF r.kind = "no_script" THEN None
    ELSE IF r.kind = "bad_json" THEN None          \* except: return None
    ELSE IF r.kind = "no_stats" THEN None
    ELSE Some(AuctionData(item[1], item[2],
                          GetOr(r.item_count, 0),
                          GetOr(r.minimum_buyout, 0),
                          GetOr(r.avg_price, 0),
                          GetOr(r.SellPrice, 0)))

(***************************************************************************)
(* export_for_aux.  A path is <<stem, suffix>>; Path.with_suffix replaces  *)
(* the suffix.  open(path, 'w') truncates the file, so each write replaces *)
(* the file's content.  json.dump writes the list of records in order.     *)
(***************************************************************************)
with_suffix(path, suffix) == <<path[1], suffix>>

NoFile == [kind |-> "absent", body |-> <<>>]
File(kind, body) == [kind |-> kind, body |-> body]

JsonRecord(o) ==
    [id |-> o.item_id, name |-> o.item_name, type |-> o.opportunity_type,
     profit |-> o.profit_per_item, roi |-> o.roi_percent]

TextLine(o) ==
    [item_name |-> o.item_name, opportunity_type |-> o.opportunity_type,
     profit |-> format_copper(o.profit_per_item)]

TextHeader ==
    << [header |-> "# Arbitrage Candidates - Search these in Aux\n"],
       [header |-> "# Format: item_name (type: profit)\n\n"] >>

\* open(path, 'w') ... write(body)
WriteFile(fsys, path, content) == [fsys EXCEPT ![path] = content]

export_for_aux(fsys, opps, path) ==
    LET records == [k \in 1..Len(opps) |-> JsonRecord(opps[k])]
        afterJson == WriteFile(fsys, path, File("json", records))
        text_path == with_suffix(path, ".txt")
        lines == [k \in 1..Len(opps) |-> TextLine(opps[k])]
    IN  WriteFile(afterJson, text_path, File("text", TextHeader \o lines))

(***************************************************************************)
(* Inputs of the specifications.                                           *)
(***************************************************************************)
MaxAuctions == 2      \* analyze: at most MaxAuctions snapshots
MaxItems    == 3      \* scan_items: at most MaxItems items
MaxOpps     == 2      \* export_for_aux: at most MaxOpps opportunities
MaxExports  == 2      \* export_for_aux is called at most MaxExports times
MaxCopper   == 10250  \* format_copper: amounts 0..MaxCopper

\* format_copper: amounts with several digits of gold
LargeAmounts == {99999, 100000, 123456, 990099, 1000000, 2147480000}

ItemPool == {<<1, "Copper Ore">>, <<2, "Linen Cloth">>}

\* the sequences over S of length 0..n
SeqsUpTo(S, n) == UNION {[1..k -> S] : k \in 0..n}

NoAuction == AuctionData(0, "", 0, 0, 0, 0)

\* analyze: snapshots that scan_items lets through (amount_listed > 0); the
\* k-th snapshot of a list carries item id k
AnPrices == [vendor_price : {0, 2, 3}, min_buyout : {1, 2}, avg_price : {0, 3},
             amount_listed : {1, 2}]
AuctionList(ps) ==
    [k \in 1..Len(ps) |->
        AuctionData(k, "Item", ps[k].amount_listed, ps[k].min_buyout,
                    ps[k].avg_price, ps[k].vendor_price)]
AuctionLists == {AuctionList(ps) : ps \in SeqsUpTo(AnPrices, MaxAuctions)}

\* scan_items: what the site may answer
Failures == {Response(k, None, None, None, None) :
                k \in {"network_error", "404", "http_error", "no_script",
                       "bad_json", "no_stats"}}
OkResponses ==
    {Response("ok", c, Some(1), Some(3), Some(2)) :
        c \in {None} \cup {Some(n) : n \in 0..MaxAmount}}
    \cup {Response("ok", Some(1), None, None, None)}
Responses == Failures \cup OkResponses

\* export_for_aux: the opportunities the two detectors find in two snapshots
ExportAuctions == {AuctionData(1, "Copper Ore", 2, 1, 3, 2),
                   AuctionData(2, "Linen Cloth", 1, 1, 3, 3)}
OppPool == {Get(o) : o \in
              {d \in {detect_vendor_flip(a, 1) : a \in ExportAuctions}
                     \cup {detect_market_flip(a, 1, Threshold070) : a \in ExportAuctions} :
                  IsSome(d)}}
Paths == {<<"arbitrage_candidates", ".json">>, <<"candidates", ".txt">>,
          <<"candidates", "">>}
AllPaths == Paths \cup {with_suffix(p, ".txt") : p \in Paths}
StaleFile == File("text", <<[header |-> "left by an earlier run\n"]>>)

(***************************************************************************)
(* Initial states: each specification draws the inputs of its operation    *)
(* and leaves the other parts idle.                                        *)
(***************************************************************************)
IdleDetector == auction = NoAuction /\ opp = None /\ called = "none"
IdleAnalyze  == auctions = <<>> /\ opportunities = <<>> /\ analyzed = FALSE
IdleScan     == /\ items = <<>> /\ responses = <<>> /\ idx = 0
                /\ requests = <<>> /\ results = <<>> /\ returned = FALSE
IdleExport   == /\ output_path = <<"arbitrage_candidates", ".json">>
                /\ export_in = <<>>
                /\ fs = [p \in AllPaths |-> NoFile]
                /\ exports = 0 /\ first_fs = [p \in AllPaths |-> NoFile]
IdleFormat   == copper = 0 /\ text = <<>>
DefaultConfig == min_profit = 1000 /\ market_threshold = Threshold070

InitVendor ==
    /\ min_profit \in MinProfits
    /\ market_threshold = Threshold070
    /\ auction \in {AuctionData(1, "Item", n, b, 0, v) :
                       n \in 1..MaxAmount, b \in 0..MaxVendor, v \in 0..MaxVendor}
    /\ opp = None /\ called = "none"
    /\ IdleAnalyze /\ IdleScan /\ IdleExport /\ IdleFormat

InitMarket ==
    /\ min_profit \in MinProfits
    /\ market_threshold \in Thresholds
    /\ auction \in {AuctionData(1, "Item", n, b, a, 0) :
                       n \in 1..MaxAmount, b \in 0..MaxBuyout, a \in 0..MaxAvg}
    /\ opp = None /\ called = "none"
    /\ IdleAnalyze /\ IdleScan /\ IdleExport /\ IdleFormat

InitAnalyze ==
    /\ min_profit \in MinProfits
    /\ market_threshold = Threshold070
    /\ auctions \in AuctionLists
    /\ opportunities = <<>> /\ analyzed = FALSE
    /\ IdleDetector /\ IdleScan /\ IdleExport /\ IdleFormat

InitScan ==
    /\ DefaultConfig
    /\ items \in SeqsUpTo(ItemPool, MaxItems)
    /\ responses = <<>> /\ idx = 0 /\ requests = <<>> /\ results = <<>>
    /\ returned = FALSE
    /\ IdleDetector /\ IdleAnalyze /\ IdleExport /\ IdleFormat

InitExport ==
    /\ DefaultConfig
    /\ output_path \in Paths
    /\ export_in \in SeqsUpTo(OppPool, MaxOpps) \ {<<>>}   \* main exports only a non-empty list
    /\ fs \in [AllPaths -> {NoFile, StaleFile}]
    /\ exports = 0
    /\ first_fs = fs
    /\ IdleDetector /\ IdleAnalyze /\ IdleScan /\ IdleFormat

InitFormat ==
    /\ DefaultConfig
    /\ copper \in (0..MaxCopper) \cup LargeAmounts
    /\ text = <<>>
    /\ IdleDetector /\ IdleAnalyze /\ IdleScan /\ IdleExport

(***************************************************************************)
(* Actions.                                                                *)
(***************************************************************************)
\* detector.detect_vendor_flip(auction)
DetectVendorFlip ==
    /\ called = "none"
    /\ opp' = detect_vendor_flip(auction, min_profit)
    /\ called' = "vendor"
    /\ UNCHANGED <<auction, configVars, analyzeVars, scanVars, exportVars, formatVars>>

\* detector.detect_market_flip(auction)
DetectMarketFlip ==
    /\ called = "none"
    /\ opp' = detect_market_flip(auction, min_profit, market_threshold)
    /\ called' = "market"
    /\ UNCHANGED <<auction, configVars, analyzeVars, scanVars, exportVars, formatVars>>

\* detector.analyze(auctions)
Analyze ==
    /\ ~analyzed
    /\ opportunities' = analyze(auctions, min_profit, market_threshold)
    /\ analyzed' = TRUE
    /\ UNCHANGED <<auctions, configVars, detectorVars, scanVars, exportVars, formatVars>>

\* an iteration of scan_items whose fetch lets exceptions through: the batch ends
ScanItemAborting ==
    /\ ~returned
    /\ idx < Len(items)
    /\ \E r \in Responses :
         LET item == items[idx + 1]
             data == fetch_item(item, r)
             raised == r.kind \in {"network_error", "http_error", "bad_json"}
         IN  /\ requests' = Append(requests, item)
             /\ responses' = Append(responses, r)
             /\ results' = IF IsSome(data) /\ Get(data).amount_listed > 0
                             THEN Append(results, Get(data))
                             ELSE results
             /\ returned' = raised
    /\ idx' = idx + 1
    /\ UNCHANGED <<items, configVars, detectorVars, analyzeVars,
                   exportVars, formatVars>>

\* one iteration of the loop of scan_items: fetch_item, the filter on
\* amount_listed, the append (time.sleep changes no state)
ScanItem ==
    /\ ~returned
    /\ idx < Len(items)
    /\ \E r \in Responses :
         LET item == items[idx + 1]
             data == fetch_item(item, r)
         IN  /\ requests' = Append(requests, item)
             /\ responses' = Append(responses, r)
             /\ results' = IF IsSome(data) /\ Get(data).amount_listed > 0
                             THEN Append(results, Get(data))
                             ELSE results
    /\ idx' = idx + 1
    /\ UNCHANGED <<items, returned, configVars, detectorVars, analyzeVars,
                   exportVars, formatVars>>

\* the loop of scan_items is exhausted: return results
ScanReturn ==
    /\ ~returned
    /\ idx = Len(items)
    /\ returned' = TRUE
    /\ UNCHANGED <<items, responses, idx, requests, results, configVars,
                   detectorVars, analyzeVars, exportVars, formatVars>>

\* export_for_aux(export_in, output_path)
ExportForAux ==
    /\ exports < MaxExports
    /\ fs' = export_for_aux(fs, export_in, output_path)
    /\ exports' = exports + 1
    /\ first_fs' = IF exports = 0 THEN fs' ELSE first_fs
    /\ UNCHANGED <<output_path, export_in, configVars, detectorVars, analyzeVars,
                   scanVars, formatVars>>

\* format_copper(copper)
FormatCopper ==
    /\ text = <<>>
    /\ text' = format_copper(copper)
    /\ UNCHANGED <<copper, configVars, detectorVars, analyzeVars, scanVars, exportVars>>

NextScan == ScanItem \/ ScanReturn

SpecVendor  == InitVendor /\ [][DetectVendorFlip]_vars
SpecMarket  == InitMarket /\ [][DetectMarketFlip]_vars
SpecAnalyze == InitAnalyze /\ [][Analyze]_vars
SpecScan    == InitScan /\ [][NextScan]_vars
SpecExport  == InitExport /\ [][ExportForAux]_vars
SpecFormat  == InitFormat /\ [][FormatCopper]_vars

(***************************************************************************)
(* Properties: the vendor flip.                                            *)
(***************************************************************************)
VendorCalled == called = "vendor"
MarketCalled == called = "market"

\* C1: whenever vendor_price <= min_buyout, detect_vendor_flip returns None,
\* for every min_profit (0 and negative values included).
C1_NoVendorFlipAtOrBelowBuyout ==
    (VendorCalled /\ auction.vendor_price <= auction.min_buyout) => opp = None

\* C2: whenever min_buyout = 0 or vendor_price = 0, detect_vendor_flip
\* returns None, whatever the other price and min_profit are.
C2_VendorFlipNeedsBothPrices ==
    (VendorCalled /\ (auction.min_buyout = 0 \/ auction.vendor_price = 0))
        => opp = None

C3_Case ==
    /\ VendorCalled
    /\ auction.vendor_price > auction.min_buyout
    /\ auction.min_buyout > 0
    /\ auction.vendor_price - auction.min_buyout >= min_profit

\* C3: whenever vendor_price > min_buyout > 0 and vendor_price - min_buyout >=
\* min_profit, detect_vendor_flip returns a 'vendor' opportunity with
\* profit_per_item = vendor_price - min_buyout, current_price = min_buyout,
\* target_price = vendor_price and roi_percent = profit / min_buyout * 100.
C3_VendorFlipFound ==
    C3_Case =>
        /\ IsSome(opp)
        /\ Get(opp).opportunity_type = "vendor"
        /\ Get(opp).profit_per_item = auction.vendor_price - auction.min_buyout
        /\ Get(opp).current_price = auction.min_buyout
        /\ Get(opp).target_price = auction.vendor_price
        /\ Get(opp).roi_percent.den > 0
        /\ Get(opp).roi_percent.num * auction.min_buyout
             = (auction.vendor_price - auction.min_buyout) * 100
                 * Get(opp).roi_percent.den

\* C3's case happens with a profit that is neither price, above min_profit > 0
C3_Witness ==
    /\ C3_Case
    /\ min_profit > 0
    /\ auction.vendor_price - auction.min_buyout > min_profit
    /\ auction.min_buyout > 1
    /\ IsSome(opp)

(***************************************************************************)
(* Properties: the market flip.  In exact arithmetic, with the threshold   *)
(* num/den: min_buyout > avg_price * threshold iff min_buyout * den >      *)
(* avg_price * num, and avg_price * 0.95 - min_buyout is                   *)
(* (19 * avg_price - 20 * min_buyout) / 20.                                *)
(***************************************************************************)
AboveThreshold ==
    auction.min_buyout * market_threshold.den > auction.avg_price * market_threshold.num
AtThreshold ==
    auction.min_buyout * market_threshold.den = auction.avg_price * market_threshold.num

\* num/den (den > 0) rounded toward zero
TruncDiv(num, den) == IF num >= 0 THEN num \div den ELSE 0 - ((0 - num) \div den)

\* C4: whenever min_buyout > avg_price * market_threshold, detect_market_flip
\* returns None whatever the profit and min_profit are; and a snapshot with
\* min_buyout exactly avg_price * market_threshold is not rejected by the
\* threshold rule: it yields an opportunity as soon as its profit reaches
\* min_profit.
C4_ThresholdRule ==
    MarketCalled =>
        /\ AboveThreshold => opp = None
        /\ ( /\ AtThreshold
             /\ auction.avg_price > 0
             /\ auction.min_buyout > 0
             /\ TruncDiv(19 * auction.avg_price - 20 * auction.min_buyout, 20)
                  >= min_profit )
           => IsSome(opp)

\* C5: whenever avg_price > 0, min_buyout > 0 and min_buyout <= avg_price *
\* market_threshold, detect_market_flip returns an opportunity iff
\* floor(avg_price * 0.95 - min_buyout) >= min_profit, and profit_per_item is
\* that floor (rounding toward minus infinity, also below zero).
C5_FloorProfit ==
    ( /\ MarketCalled
      /\ auction.avg_price > 0
      /\ auction.min_buyout > 0
      /\ ~AboveThreshold )
    => LET profit == Floor(19 * auction.avg_price - 20 * auction.min_buyout, 20)
       IN  IF profit >= min_profit
             THEN IsSome(opp) /\ Get(opp).profit_per_item = profit
             ELSE opp = None

(***************************************************************************)
(* Properties: analyze.  In the lists InitAnalyze draws, the k-th snapshot *)
(* carries item id k, so an opportunity's place in the encounter order is  *)
(* given by its item id and, for one snapshot, vendor before market.       *)
(***************************************************************************)
Encounter(o) == 2 * o.item_id + (IF o.opportunity_type = "market" THEN 1 ELSE 0)

\* the number of opportunities the two detectors find in the snapshots
Found ==
    Cardinality({k \in 1..Len(auctions) :
                    IsSome(detect_vendor_flip(auctions[k], min_profit))})
  + Cardinality({k \in 1..Len(auctions) :
                    IsSome(detect_market_flip(auctions[k], min_profit, market_threshold))})

\* C6: the list analyze returns is sorted by total_potential_profit descending,
\* and opportunities with equal total_potential_profit appear in encounter order
\* (snapshot order, and vendor before market for one snapshot); it holds every
\* opportunity found, once.
C6_SortedStable ==
    analyzed =>
        /\ Len(opportunities) = Found
        /\ \A i, j \in 1..Len(opportunities) :
             i < j =>
               /\ opportunities[i].total_potential_profit
                    >= opportunities[j].total_potential_profit
               /\ opportunities[i].total_potential_profit
                    = opportunities[j].total_potential_profit
                  => Encounter(opportunities[i]) < Encounter(opportunities[j])

\* the sort moved a later opportunity to the front, behind it a tie between the
\* vendor and the market opportunity of one snapshot and a tie across snapshots
C6_Witness ==
    /\ analyzed
    /\ Len(opportunities) >= 3
    /\ opportunities /= Collect(auctions, min_profit, market_threshold)
    /\ \E i \in 1..(Len(opportunities) - 1) :
         /\ opportunities[i].total_potential_profit
              = opportunities[i + 1].total_potential_profit
         /\ opportunities[i].item_id = opportunities[i + 1].item_id
    /\ \E i \in 1..(Len(opportunities) - 1) :
         /\ opportunities[i].total_potential_profit
              = opportunities[i + 1].total_potential_profit
         /\ opportunities[i].item_id < opportunities[i + 1].item_id

\* C10 as stated: every opportunity analyze returns, vendor or market, has
\* profit_per_item = target_price - current_price, profit_per_item >= min_profit
\* and total_potential_profit = profit_per_item * amount_available.
C10_ProfitIsTargetMinusCurrent ==
    analyzed =>
        \A k \in 1..Len(opportunities) :
            LET o == opportunities[k]
            IN  /\ o.profit_per_item = o.target_price - o.current_price
                /\ o.profit_per_item >= min_profit
                /\ o.total_potential_profit = o.profit_per_item * o.amount_available

\* C10 amended: a vendor opportunity has profit_per_item = target_price -
\* current_price; a market opportunity has profit_per_item = int(target_price *
\* 0.95 - current_price), the resale net of the 5% AH cut; both kinds have
\* profit_per_item >= min_profit and total_potential_profit = profit_per_item *
\* amount_available.
C10_ProfitNetOfAhCut ==
    analyzed =>
        \A k \in 1..Len(opportunities) :
            LET o == opportunities[k]
            IN  /\ o.opportunity_type \in {"vendor", "market"}
                /\ o.opportunity_type = "vendor"
                     => o.profit_per_item = o.target_price - o.current_price
                /\ o.opportunity_type = "market"
                     => o.profit_per_item
                          = TruncDiv(19 * o.target_price - 20 * o.current_price, 20)
                /\ o.profit_per_item >= min_profit
                /\ o.total_potential_profit = o.profit_per_item * o.amount_available

\* analyze returned a vendor and a market opportunity, with more than one item
\* available and a market profit below target_price - current_price
C10_Witness ==
    /\ analyzed
    /\ \E k \in 1..Len(opportunities) :
         /\ opportunities[k].opportunity_type = "vendor"
         /\ opportunities[k].amount_available > 1
         /\ opportunities[k].profit_per_item > 0
    /\ \E k \in 1..Len(opportunities) :
         /\ opportunities[k].opportunity_type = "market"
         /\ opportunities[k].amount_available > 1
         /\ opportunities[k].profit_per_item > 0
         /\ opportunities[k].profit_per_item
              < opportunities[k].target_price - opportunities[k].current_price

(***************************************************************************)
(* Properties: scan_items.                                                 *)
(***************************************************************************)
\* the snapshot the k-th answer carries
Snapshot(k) ==
    AuctionData(items[k][1], items[k][2],
                GetOr(responses[k].item_count, 0),
                GetOr(responses[k].minimum_buyout, 0),
                GetOr(responses[k].avg_price, 0),
                GetOr(responses[k].SellPrice, 0))

\* the k-th fetch succeeded with a positive amount listed
Listed(k) ==
    /\ responses[k].kind = "ok"
    /\ IsSome(responses[k].item_count)
    /\ Get(responses[k].item_count) > 0

C8_ExportOrderedIdempotent ==
    exports >= 1 =>
        /\ fs[output_path].kind = "json"
        /\ Len(fs[output_path].body) = Len(export_in)
        /\ \A k \in 1..Len(export_in) :
             /\ fs[output_path].body[k].id = export_in[k].item_id
             /\ fs[output_path].body[k].type = export_in[k].opportunity_type
             /\ fs[output_path].body[k].profit = export_in[k].profit_per_item
        /\ LET txt == fs[with_suffix(output_path, ".txt")]
           IN  /\ txt.kind = "text"
               /\ Len(txt.body) = Len(TextHeader) + Len(export_in)
               /\ \A k \in 1..Len(export_in) :
                    /\ txt.body[Len(TextHeader) + k].item_name = export_in[k].item_name
                    /\ txt.body[Len(TextHeader) + k].opportunity_type
                         = export_in[k].opportunity_type
        /\ exports >= 2 => fs = first_fs

(***************************************************************************)
(* Properties: format_copper.                                              *)
(***************************************************************************)
Formatted == text /= <<>>

\* the components of an amount, and how each is written
GoldOf(n) == n \div 10000
SilverOf(n) == (n % 10000) \div 100
CopperOf(n) == n % 100
Written(v, unit) == IF v > 0 THEN <<IntToChars(v) \o <<unit>>>> ELSE <<>>

\* C9: for n >= 0, format_copper(n) lists in the order gold, silver, copper
\* exactly the non-zero components of n, joined by single spaces, and is '0c'
\* for n = 0; the written components add back up to n (_parse_copper reads n
\* back); 10000 -> '1g', 150 -> '1s 50c', 10250 -> '1g 2s 50c'.
C9_FormatCopper ==
    Formatted =>
        /\ text = IF copper = 0 THEN <<"0", "c">>
                  ELSE Join(Written(GoldOf(copper), "g")
                            \o Written(SilverOf(copper), "s")
                            \o Written(CopperOf(copper), "c"))
        /\ parse_copper(text) = copper
        /\ copper = 0 => text = <<"0", "c">>
        /\ copper = 150 => text = <<"1", "s", " ", "5", "0", "c">>
        /\ copper = 10000 => text = <<"1", "g">>
        /\ copper = 10250 => text = <<"1", "g", " ", "2", "s", " ", "5", "0", "c">>

\* an amount with all three components was formatted
C9_Witness ==
    /\ Formatted
    /\ GoldOf(copper) > 0 /\ SilverOf(copper) > 0 /\ CopperOf(copper) > 0

====
